---- MODULE Spec2Model ----
(***************************************************************************)
(* A model of concordia's "options perception" agent factory               *)
(* (factory/agent/anish_agent-OptionsPerception.py, build_agent) and of    *)
(* the Entity contract (typing/entity.py): the registry of named context   *)
(* components build_agent assembles, the order it fixes for them, the      *)
(* dependency names and logging channels it hands to each component, and   *)
(* the act / observe / name operations of the entity built from them.      *)
(***************************************************************************)
EXTENDS Integers, Sequences, FiniteSets, TLC

\* The number of operations (observe, act, read of name) run on one entity.
MaxOps == 3

\* Python's None.
NoValue == "<None>"

--------------------------------------------------------------------------
\* Sequences and insertion-ordered dictionaries, as Python keeps them.

Range(s) == {s[i] : i \in DOMAIN s}

IndexOf(s, x) == IF x \in Range(s) THEN CHOOSE i \in DOMAIN s : s[i] = x ELSE 0

Without(s, x) == SelectSeq(s, LAMBDA y : y # x)

IsDuplicateFree(s) == \A i, j \in DOMAIN s : s[i] = s[j] => i = j

\* A dict is a sequence of <<key, value>> pairs in insertion order.
DictKeys(d) == [i \in DOMAIN d |-> d[i][1]]

DictHas(d, k) == \E i \in DOMAIN d : d[i][1] = k

DictLookup(d, k) == d[CHOOSE i \in DOMAIN d : d[i][1] = k][2]

\* d[k] = v: an existing key keeps its position and takes the new value.
DictSet(d, k, v) ==
    IF DictHas(d, k)
    THEN [i \in DOMAIN d |-> IF d[i][1] = k THEN <<k, v>> ELSE d[i]]
    ELSE Append(d, <<k, v>>)

\* dict.get(k, default) with the default ignoring what the caller passed.
DictGet_DefaultTrue(d, k, default) == IF k \in DOMAIN d THEN d[k] ELSE TRUE

\* dict.get(k, default) on a mapping modelled as a function.
DictGet(d, k, default) == IF k \in DOMAIN d THEN d[k] ELSE default

\* list.insert that appends instead of inserting at the index.
ListInsert_Append(s, i, x) == Append(s, x)

\* list.insert that overwrites the element at the index.
ListInsert_Overwrite(s, i, x) ==
    [j \in DOMAIN s |-> IF j = i + 1 THEN x ELSE s[j]]

\* list.insert(i, x), i counted from 0: x lands before the element at i, or
\* at the end when the list is shorter.
ListInsert(s, i, x) ==
    LET at == IF i > Len(s) THEN Len(s) ELSE i
    IN  SubSeq(s, 1, at) \o <<x>> \o SubSeq(s, at + 1, Len(s))

\* Truthiness that only asks "is not None".
Truthy_NotNone(goal) == goal # NoValue

\* Python truthiness of config.goal (a string or None).
Truthy(goal) == goal # NoValue /\ goal # ""

--------------------------------------------------------------------------
\* The components build_agent constructs, by the local variable holding them.

ClassOf ==
    [ instructions             |-> "Instructions",
      observation              |-> "Observation",
      observation_summary      |-> "ObservationSummary",
      time_display             |-> "ReportFunction",
      identity_characteristics |-> "IdentityWithoutPreAct",
      self_perception          |-> "SelfPerception",
      paranoia                 |-> "Constant",
      situation_perception     |-> "SituationPerception",
      person_by_situation      |-> "PersonBySituation",
      pomodoro                 |-> "ScheduledHint",
      relevant_memories        |-> "AllSimilarMemories",
      overarching_goal         |-> "Constant",
      options_perception       |-> "AvailableOptionsPerception",
      best_option_perception   |-> "BestOptionPerception",
      memory_component         |-> "MemoryComponent" ]

\* The module each class is defined in.
ModuleOf ==
    [ instructions             |-> "instructions",
      observation              |-> "observation",
      observation_summary      |-> "observation",
      time_display             |-> "report_function",
      identity_characteristics |-> "question_of_query_associated_memories",
      self_perception          |-> "question_of_recent_memories",
      paranoia                 |-> "constant",
      situation_perception     |-> "question_of_recent_memories",
      person_by_situation      |-> "question_of_recent_memories",
      pomodoro                 |-> "scheduled_hint",
      relevant_memories        |-> "all_similar_memories",
      overarching_goal         |-> "constant",
      options_perception       |-> "question_of_recent_memories",
      best_option_perception   |-> "question_of_recent_memories",
      memory_component         |-> "memory_component" ]

\* A name lookup that yields the defining module instead of the class.
_get_class_name_Module(object_) == ModuleOf[object_]

_get_class_name(object_) == ClassOf[object_]

DEFAULT_MEMORY_COMPONENT_NAME == "__memory__"

goal_label == "\nOverarching goal"

\* The channel name passed to measurements.get_channel for each component;
\* the memory component is constructed without a logging channel.
LoggingChannelNames ==
    [ instructions             |-> "Instructions",
      observation              |-> "Observation",
      observation_summary      |-> "ObservationSummary",
      time_display             |-> "TimeDisplay",
      identity_characteristics |-> "IdentityWithoutPreAct",
      self_perception          |-> "SelfPerception",
      paranoia                 |-> "Perception",
      situation_perception     |-> "SituationPerception",
      person_by_situation      |-> "PersonBySituation",
      pomodoro                 |-> "PomodoroHint",
      relevant_memories        |-> "AllSimilarMemories",
      overarching_goal         |-> goal_label,
      options_perception       |-> "AvailableOptionsPerception",
      best_option_perception   |-> "BestOptionPerception",
      memory_component         |-> NoValue ]

ActChannel == "ActComponent"

\* Channels named after the component's class.
logging_channel_ByClass(component) ==
    IF component = "memory_component" THEN NoValue ELSE ClassOf[component]

logging_channel(component) == LoggingChannelNames[component]

\* Dependencies named by the logging channel instead of the class name.
components_ByChannel(component, goal) ==
    IF component = "pomodoro"
    THEN {"ObservationSummary", "SituationPerception", "TimeDisplay"}
    ELSE IF component = "relevant_memories"
    THEN {"ObservationSummary", "TimeDisplay"}
    ELSE {}

\* Dependencies in which the situation is derived from the person's answer.
components_Circular(component, goal) ==
    IF component = "situation_perception"
    THEN {_get_class_name("observation"),
          _get_class_name("person_by_situation")}
    ELSE IF component = "person_by_situation"
    THEN {_get_class_name("self_perception"),
          _get_class_name("situation_perception")}
    ELSE {}

\* The keys of the `components` argument each component is constructed with:
\* the names of the components whose text it reads.
components(component, goal) ==
    LET goal_key == IF Truthy(goal) THEN {goal_label} ELSE {}
    IN  CASE component = "self_perception" ->
               {_get_class_name("identity_characteristics")}
          [] component = "situation_perception" ->
               {_get_class_name("observation"),
                _get_class_name("observation_summary")}
          [] component = "person_by_situation" ->
               {_get_class_name("self_perception"),
                _get_class_name("situation_perception")}
          [] component = "pomodoro" ->
               {_get_class_name("observation_summary"),
                _get_class_name("situation_perception"),
                _get_class_name("time_display")}
          [] component = "relevant_memories" ->
               {_get_class_name("observation_summary"),
                _get_class_name("time_display")}
          [] component = "options_perception" ->
               goal_key \cup
               {_get_class_name("observation"),
                _get_class_name("observation_summary"),
                _get_class_name("relevant_memories")}
          [] component = "best_option_perception" ->
               goal_key \cup
               {_get_class_name("observation"),
                _get_class_name("observation_summary"),
                _get_class_name("relevant_memories"),
                _get_class_name("options_perception")}
          [] OTHER -> {}

entity_components ==
    << "instructions", "time_display", "observation", "observation_summary",
       "relevant_memories", "self_perception", "paranoia",
       "situation_perception", "person_by_situation", "options_perception",
       "best_option_perception", "pomodoro", "identity_characteristics" >>

\* {_get_class_name(component): component for component in cs}, added to d.
RECURSIVE DictOfComponents(_, _)
DictOfComponents(cs, d) ==
    IF cs = <<>> THEN d
    ELSE DictOfComponents(Tail(cs), DictSet(d, _get_class_name(Head(cs)), Head(cs)))

--------------------------------------------------------------------------
\* Errors.  A message is the sequence of its words.

NoError == [type |-> "none", message |-> <<>>]

NotMainCharacterError ==
    [ type    |-> "ValueError",
      message |-> << "This", "function", "is", "meant", "for", "a", "main",
                     "character", "but", "it", "was", "called", "on", "a",
                     "supporting", "character." >> ]

UnknownDependencyError(name, dependency) ==
    [ type    |-> "ConfigurationError",
      message |-> << "component", name, "declares", "unknown", "dependency",
                     dependency >> ]

DuplicateNameError(name) ==
    [ type    |-> "ConfigurationError",
      message |-> << "duplicate", "component", "name", name >> ]

Mentions(error, word) == word \in Range(error.message)

NoAgent ==
    [ agent_name         |-> NoValue,
      component_order    |-> <<>>,
      context_components |-> <<>>,
      dependencies       |-> <<>>,
      channels           |-> <<>> ]

\* The names a registry holds and the dependency names missing from them.
Names(registry) == Range(DictKeys(registry.context_components))

MissingDependencies(registry) ==
    { <<k, d>> \in Names(registry) \X UNION Range(registry.dependencies) :
        d \in registry.dependencies[k] /\ d \notin Names(registry) }

\* A validation that lets every registry through.
ValidateRegistry_Skip(registry) == NoError

\* Build-time validation of a registry: unique names in the order, and every
\* declared dependency name present in the full name set.
ValidateRegistry(registry) ==
    IF ~IsDuplicateFree(registry.component_order)
    THEN LET i == CHOOSE i \in DOMAIN registry.component_order :
                    \E j \in DOMAIN registry.component_order :
                        j # i /\ registry.component_order[j] =
                                 registry.component_order[i]
         IN  DuplicateNameError(registry.component_order[i])
    ELSE IF MissingDependencies(registry) # {}
    THEN LET m == CHOOSE m \in MissingDependencies(registry) : TRUE
         IN  UnknownDependencyError(m[1], m[2])
    ELSE NoError

\* The entity constructor: the registry is validated once, here.
EntityAgentWithLogging(registry) ==
    LET error == ValidateRegistry(registry)
    IN  IF error = NoError
        THEN [error |-> NoError, agent |-> registry]
        ELSE [error |-> error, agent |-> NoAgent]

\* The registry build_agent assembles for an eligible character: the
\* name-to-component mapping, the component order, and what each component
\* was constructed with (its dependency names, its logging channel).
components_of_agent(config) ==
    LET with_pre_act == DictOfComponents(entity_components, <<>>)
        with_memory  == DictSet(with_pre_act, DEFAULT_MEMORY_COMPONENT_NAME,
                                "memory_component")
        overarching_goal ==
            IF Truthy(config.goal) THEN "overarching_goal" ELSE NoValue
        component_order == DictKeys(with_memory)
        mapping ==
            IF overarching_goal # NoValue
            THEN DictSet(with_memory, goal_label, overarching_goal)
            ELSE with_memory
        names == Range(DictKeys(mapping))
    IN  [ agent_name         |-> config.name,
          component_order    |->
              IF overarching_goal # NoValue
              THEN ListInsert(component_order, 1, goal_label)
              ELSE component_order,
          context_components |-> mapping,
          dependencies       |->
              [k \in names |-> components(DictLookup(mapping, k), config.goal)],
          channels           |->
              [k \in names |-> logging_channel(DictLookup(mapping, k))] ]

IsMainCharacter(config) == DictGet(config.extras, "main_character", FALSE)

build_agent(config) ==
    IF ~IsMainCharacter(config)
    THEN [error |-> NotMainCharacterError, agent |-> NoAgent]
    ELSE EntityAgentWithLogging(components_of_agent(config))

\* The text a component holds when the entity is built.
InitialText(component, goal) ==
    CASE component = "overarching_goal" -> goal
      [] component = "instructions" -> "role play instructions"
      [] component = "paranoia" -> "perception"
      [] component = "time_display" -> "time"
      [] component \in {"observation", "identity_characteristics",
                        "memory_component"} -> ""
      [] OTHER -> "answer"

--------------------------------------------------------------------------
\* Inputs.

AgentNames == {"Ann", "Bob"}

Goals == {NoValue, "", "find the key"}

\* config.extras: the flag may be absent, false or true.
Extras == UNION {[S -> BOOLEAN] : S \in SUBSET {"main_character"}}

Configs == [name : AgentNames, goal : Goals, extras : Extras]

Observations == {"X", "Y"}

OracleAnswers == {"go left", "go right"}

\* Registries handed to the entity constructor directly: three components in
\* any order, the self-perception one declaring one dependency by name.
DirectNames == {"Instructions", "Observation", "SelfPerception"}

DirectDependencies == {"Identity2", "Instructions", "Observation"}

Orderings(S) ==
    {s \in [1..Cardinality(S) -> S] : \A i, j \in DOMAIN s : s[i] = s[j] => i = j}

DirectComponent ==
    [ Instructions   |-> "instructions",
      Observation    |-> "observation",
      SelfPerception |-> "self_perception" ]

DirectRegistry(agent_name, order, dependency) ==
    [ agent_name         |-> agent_name,
      component_order    |-> order,
      context_components |->
          << <<"Instructions", "instructions">>,
             <<"Observation", "observation">>,
             <<"SelfPerception", "self_perception">> >>,
      dependencies       |->
          [k \in DirectNames |->
              IF k = "SelfPerception" THEN {dependency} ELSE {}],
      channels           |->
          [k \in DirectNames |-> logging_channel(DirectComponent[k])] ]

--------------------------------------------------------------------------
VARIABLES
    phase,            \* "unbuilt", "built" or "failed"
    request,          \* how construction was asked for, and with what
    error,            \* the error construction raised, or NoError
    agent,            \* the entity: name, order, registry, wiring
    lastText,         \* name -> the text the component currently holds
    measurements,     \* channel name -> the entries appended to it
    preActCalls,      \* name -> number of pre_act_text calls so far
    clock,            \* the number of calls so far, used as timestamp
    actLog,           \* the calls made by the latest act, in order
    prompt,           \* the sections of the latest act's prompt, in order
    lookupFailed,     \* a call has looked up a name the registry lacks
    nameCache,        \* the cached name, NoValue before the first read
    nameComputations, \* how often the name was computed
    nameReads,        \* the values the reads of name returned, in order
    nActs,            \* completed act calls
    nOps              \* operations run on the entity

vars ==
    << phase, request, error, agent, lastText, measurements, preActCalls,
       clock, actLog, prompt, lookupFailed, nameCache, nameComputations,
       nameReads, nActs, nOps >>

NoRequest == [op |-> "none"]

Init ==
    /\ phase = "unbuilt"
    /\ request = NoRequest
    /\ error = NoError
    /\ agent = NoAgent
    /\ lastText = <<>>
    /\ measurements = <<>>
    /\ preActCalls = <<>>
    /\ clock = 0
    /\ actLog = <<>>
    /\ prompt = <<>>
    /\ lookupFailed = FALSE
    /\ nameCache = NoValue
    /\ nameComputations = 0
    /\ nameReads = <<>>
    /\ nActs = 0
    /\ nOps = 0

\* The state of a freshly constructed entity (or of a failed construction).
Constructed(result, goal) ==
    LET names == Names(result.agent)
        chans == {result.agent.channels[k] : k \in names} \ {NoValue}
    IN  /\ error' = result.error
        /\ agent' = result.agent
        /\ phase' = IF result.error = NoError THEN "built" ELSE "failed"
        /\ lastText' =
               [k \in names |->
                   InitialText(DictLookup(result.agent.context_components, k),
                               goal)]
        /\ measurements' =
               IF result.error = NoError
               THEN [c \in chans \cup {ActChannel} |-> <<>>]
               ELSE <<>>
        /\ preActCalls' = [k \in names |-> 0]
        /\ UNCHANGED << clock, actLog, prompt, lookupFailed, nameCache,
                        nameComputations, nameReads, nActs, nOps >>

\* build_agent(config=...).
BuildAgent ==
    /\ phase = "unbuilt"
    /\ \E config \in Configs :
          /\ request' = [op |-> "build_agent", config |-> config]
          /\ Constructed(build_agent(config), config.goal)

\* EntityAgentWithLogging(...) called directly with the caller's registry.
ConstructEntity ==
    /\ phase = "unbuilt"
    /\ \E agent_name \in AgentNames, order \in Orderings(DirectNames),
          dependency \in DirectDependencies :
          LET registry == DirectRegistry(agent_name, order, dependency)
          IN  /\ request' = [op |-> "EntityAgentWithLogging",
                             registry |-> registry]
              /\ Constructed(EntityAgentWithLogging(registry), NoValue)

--------------------------------------------------------------------------
\* Operations on a built entity.

\* One pre_act_text call: the component looks up the names it declared,
\* produces its current text, and appends it to its own channel.
PreActText(st, k) ==
    LET present == DictHas(agent.context_components, k)
        missing == present /\ \E d \in agent.dependencies[k] :
                                  ~DictHas(agent.context_components, d)
        text    == IF present THEN lastText[k] ELSE ""
        channel == IF present THEN agent.channels[k] ELSE NoValue
        entry   == [time |-> st.clock, component |-> k, value |-> text]
    IN  [ measurements |->
              IF channel = NoValue THEN st.measurements
              ELSE [st.measurements EXCEPT ![channel] = Append(@, entry)],
          preActCalls  |->
              IF present THEN [st.preActCalls EXCEPT ![k] = @ + 1]
              ELSE st.preActCalls,
          clock        |-> st.clock + 1,
          actLog       |-> Append(st.actLog, [op |-> "pre_act_text", name |-> k]),
          prompt       |->
              IF text = "" THEN st.prompt
              ELSE Append(st.prompt, [name |-> k, text |-> text]),
          lookupFailed |-> st.lookupFailed \/ ~present \/ missing ]

\* The act sequencer's walk: every component of the order, first to last.
RECURSIVE ReadComponents(_, _)
ReadComponents(st, order) ==
    IF order = <<>> THEN st
    ELSE ReadComponents(PreActText(st, Head(order)), Tail(order))

\* act(action_spec): read every component in the fixed order, then ask the
\* oracle once; the answer goes to the act channel.
Act ==
    /\ phase = "built"
    /\ nOps < MaxOps
    /\ \E answer \in OracleAnswers :
          LET start == [ measurements |-> measurements,
                         preActCalls  |-> preActCalls,
                         clock        |-> clock,
                         actLog       |-> <<>>,
                         prompt       |-> <<>>,
                         lookupFailed |-> lookupFailed ]
              read  == ReadComponents(start, agent.component_order)
              entry == [time |-> read.clock, component |-> ActChannel,
                        value |-> answer]
          IN  /\ measurements' =
                     [read.measurements EXCEPT ![ActChannel] = Append(@, entry)]
              /\ preActCalls' = read.preActCalls
              /\ clock' = read.clock + 1
              /\ actLog' = Append(read.actLog,
                                  [op |-> "oracle", name |-> ActChannel])
              /\ prompt' = read.prompt
              /\ lookupFailed' = read.lookupFailed
    /\ nActs' = nActs + 1
    /\ nOps' = nOps + 1
    /\ UNCHANGED << phase, request, error, agent, lastText, nameCache,
                    nameComputations, nameReads >>

\* observe(text): broadcast to the components that ingest observations.
Observe ==
    /\ phase = "built"
    /\ nOps < MaxOps
    /\ \E observation \in Observations :
          lastText' =
              [k \in DOMAIN lastText |->
                  IF DictLookup(agent.context_components, k) = "observation"
                  THEN observation ELSE lastText[k]]
    /\ nOps' = nOps + 1
    /\ UNCHANGED << phase, request, error, agent, measurements, preActCalls,
                    clock, actLog, prompt, lookupFailed, nameCache,
                    nameComputations, nameReads, nActs >>

\* A property: the getter runs on every read and nothing is stored.
cached_property_Uncached(cache, computed) ==
    [value |-> computed, cache |-> cache, ran |-> 1]

\* functools.cached_property: the getter runs when nothing is cached yet and
\* its result is stored; every later read returns what is stored.
cached_property(cache, computed) ==
    IF cache = NoValue
    THEN [value |-> computed, cache |-> computed, ran |-> 1]
    ELSE [value |-> cache, cache |-> cache, ran |-> 0]

\* A read of entity.name.
ReadName ==
    /\ phase = "built"
    /\ nOps < MaxOps
    /\ LET read == cached_property(nameCache, agent.agent_name)
       IN  /\ nameCache' = read.cache
           /\ nameComputations' = nameComputations + read.ran
           /\ nameReads' = Append(nameReads, read.value)
    /\ nOps' = nOps + 1
    /\ UNCHANGED << phase, request, error, agent, lastText, measurements,
                    preActCalls, clock, actLog, prompt, lookupFailed, nActs >>

Next ==
    \/ BuildAgent
    \/ ConstructEntity
    \/ Act
    \/ Observe
    \/ ReadName

Spec == Init /\ [][Next]_vars

--------------------------------------------------------------------------
\* What was asked for, read off the request alone.

FlagSet ==
    /\ request.op = "build_agent"
    /\ "main_character" \in DOMAIN request.config.extras
    /\ request.config.extras["main_character"]

EligibleBuild == request.op = "build_agent" /\ FlagSet

IneligibleBuild == request.op = "build_agent" /\ ~FlagSet

GoalConfigured == EligibleBuild /\ request.config.goal \notin {NoValue, ""}

NoGoalConfigured == EligibleBuild /\ request.config.goal \in {NoValue, ""}

Order == agent.component_order

Registry == agent.context_components

Before(order, a, b) == IndexOf(order, a) > 0 /\ IndexOf(order, a) < IndexOf(order, b)

\* C1: with a non-empty goal, build_agent puts the goal component's name at
\* index 1 of the component order (the second entry), right after the
\* Instructions entry, although the mapping received it last; the other
\* names keep the relative order they had before the insertion.
C1_GoalAtIndexOne ==
    GoalConfigured =>
        /\ phase = "built"
        /\ Len(Order) >= 2
        /\ Order[1] = "Instructions"
        /\ Order[2] = goal_label
        /\ Without(Order, goal_label) = Without(DictKeys(Registry), goal_label)
        /\ Len(Order) = Len(Without(Order, goal_label)) + 1

C1_Witness ==
    /\ GoalConfigured
    /\ phase = "built"
    /\ Order[2] = goal_label
    /\ DictKeys(Registry)[Len(Registry)] = goal_label
    /\ Len(Registry) > 2

\* C3 as stated: an absent or false 'main_character' flag makes build_agent
\* fail with a ConfigurationError that names the flag, and no agent is built.
C3_Original ==
    IneligibleBuild =>
        /\ phase = "failed"
        /\ agent = NoAgent
        /\ error.type = "ConfigurationError"
        /\ Mentions(error, "main_character")

\* C3 as amended: an absent or false 'main_character' flag makes build_agent
\* fail with a ValueError whose message says the function is meant for a
\* main character and was called on a supporting character (it does not
\* spell the flag's key), and no agent is built.
C3_RejectsWithValueError ==
    IneligibleBuild =>
        /\ phase = "failed"
        /\ agent = NoAgent
        /\ error.type = "ValueError"
        /\ Mentions(error, "main") /\ Mentions(error, "supporting")
        /\ ~Mentions(error, "main_character")
        /\ nOps = 0

C3_Witness ==
    /\ IneligibleBuild
    /\ "main_character" \notin DOMAIN request.config.extras
    /\ phase = "failed"
    /\ error.type = "ValueError"

\* C9: after build_agent the registry's names are unique, every component
\* build_agent constructed (both Constant components and the memory
\* component included) is registered under its own name, none overwriting
\* another, and the component order holds each registered name exactly once.
C9_UniqueNames ==
    EligibleBuild =>
        LET constructed ==
                Range(entity_components) \cup {"memory_component"} \cup
                (IF GoalConfigured THEN {"overarching_goal"} ELSE {})
        IN  /\ phase = "built"
            /\ IsDuplicateFree(DictKeys(Registry))
            /\ {Registry[i][2] : i \in DOMAIN Registry} = constructed
            /\ Len(Registry) = Cardinality(constructed)
            /\ IsDuplicateFree(Order)
            /\ Range(Order) = Range(DictKeys(Registry))
            /\ DictLookup(Registry, "Constant") = "paranoia"
            /\ DictLookup(Registry, DEFAULT_MEMORY_COMPONENT_NAME) =
                   "memory_component"
            /\ GoalConfigured =>
                   DictLookup(Registry, goal_label) = "overarching_goal"

C9_Witness ==
    /\ GoalConfigured
    /\ phase = "built"
    /\ DictHas(Registry, "Constant")
    /\ DictHas(Registry, goal_label)
    /\ DictHas(Registry, DEFAULT_MEMORY_COMPONENT_NAME)
    /\ Len(Order) = Len(entity_components) + 2

\* C10: with no goal configured (None or the empty string) build_agent
\* still succeeds: no goal component is registered, the order has no goal
\* entry and is otherwise the order of the build with a goal, and neither
\* the available-options nor the best-option component names the goal.
C10_GoalOmitted ==
    NoGoalConfigured =>
        LET with_goal ==
                components_of_agent([request.config EXCEPT !.goal = "find the key"])
        IN  /\ phase = "built"
            /\ error = NoError
            /\ ~DictHas(Registry, goal_label)
            /\ goal_label \notin Range(Order)
            /\ goal_label \in Range(with_goal.component_order)
            /\ Order = Without(with_goal.component_order, goal_label)
            /\ goal_label \notin
                   agent.dependencies["AvailableOptionsPerception"] \cup
                   agent.dependencies["BestOptionPerception"]
            /\ "overarching_goal" \notin {Registry[i][2] : i \in DOMAIN Registry}

C10_Witness ==
    /\ NoGoalConfigured
    /\ request.config.goal = ""
    /\ phase = "built"
    /\ Len(Order) = Len(entity_components) + 1
    /\ agent.dependencies["BestOptionPerception"] # {}

--------------------------------------------------------------------------
\* The dependency relation of the built entity.

Declared == {<<k, d>> \in Names(agent) \X UNION Range(agent.dependencies) :
                d \in agent.dependencies[k]}

RECURSIVE Reachable(_, _, _)
Reachable(deps, frontier, seen) ==
    LET next == UNION {deps[k] : k \in frontier \cap DOMAIN deps} \ seen
    IN  IF next = {} THEN seen ELSE Reachable(deps, next, seen \cup next)

Acyclic(deps) == \A k \in DOMAIN deps : k \notin Reachable(deps, {k}, {})

\* C7 as stated: in the registry build_agent assembles, every declared
\* dependency name stands earlier in the component order than the component
\* declaring it.
C7_Original ==
    (EligibleBuild /\ phase = "built") =>
        \A p \in Declared : Before(Order, p[2], p[1])

\* C7 as amended: every declared dependency name stands earlier in the
\* component order than the component declaring it, except the one forward
\* reference from SelfPerception to IdentityWithoutPreAct, which stands
\* later (among the components without pre-act context); no component
\* depends on itself and the dependency relation has no cycle.
C7_NoCycleOneForwardReference ==
    EligibleBuild =>
        /\ phase = "built"
        /\ \A p \in Declared :
              \/ Before(Order, p[2], p[1])
              \/ p = <<"SelfPerception", "IdentityWithoutPreAct">>
        /\ <<"SelfPerception", "IdentityWithoutPreAct">> \in Declared
        /\ Before(Order, "SelfPerception", "IdentityWithoutPreAct")
        /\ \A p \in Declared : p[1] # p[2]
        /\ Acyclic(agent.dependencies)

C7_Witness ==
    /\ GoalConfigured
    /\ phase = "built"
    /\ <<"BestOptionPerception", goal_label>> \in Declared
    /\ Before(Order, goal_label, "BestOptionPerception")
    /\ Before(Order, "SelfPerception", "IdentityWithoutPreAct")
    /\ <<"PersonBySituation", "SelfPerception">> \in Declared

\* C8: in the registry build_agent assembles, every declared dependency name
\* is a key of the name-to-component mapping, so no act or observe call on
\* the built entity looks up a name the registry lacks.
C8_DependenciesRegistered ==
    EligibleBuild =>
        /\ phase = "built"
        /\ \A k \in Names(agent) : agent.dependencies[k] \subseteq Names(agent)
        /\ Range(Order) \subseteq Names(agent)
        /\ ~lookupFailed

C8_Witness ==
    /\ GoalConfigured
    /\ phase = "built"
    /\ nActs > 0
    /\ nOps > nActs
    /\ preActCalls["ScheduledHint"] > 0
    /\ "ReportFunction" \in agent.dependencies["ScheduledHint"]
    /\ goal_label \in agent.dependencies["AvailableOptionsPerception"]
    /\ ~lookupFailed

\* The registry a request asks to be constructed.
Requested ==
    IF request.op = "build_agent"
    THEN components_of_agent(request.config)
    ELSE request.registry

DeclaresAbsentName ==
    /\ request.op = "EntityAgentWithLogging" \/ EligibleBuild
    /\ \E k \in DOMAIN Requested.dependencies :
          \E d \in Requested.dependencies[k] :
              ~DictHas(Requested.context_components, d)

\* C4: constructing a registry in which a component declares a dependency
\* name the registry lacks raises ConfigurationError naming it, at build
\* time: no entity exists, so no act or observe call on it can succeed.
C4_AbsentDependencyRejected ==
    DeclaresAbsentName =>
        /\ phase = "failed"
        /\ error.type = "ConfigurationError"
        /\ \E k \in DOMAIN Requested.dependencies :
              \E d \in Requested.dependencies[k] :
                  /\ ~DictHas(Requested.context_components, d)
                  /\ Mentions(error, d)
        /\ agent = NoAgent
        /\ nOps = 0 /\ nActs = 0
        /\ actLog = <<>> /\ measurements = <<>>

C4_Witness ==
    /\ request.op = "EntityAgentWithLogging"
    /\ request.registry.dependencies["SelfPerception"] = {"Identity2"}
    /\ phase = "failed"
    /\ Mentions(error, "Identity2")

\* C5: the entity's name is computed once and cached: every read of name,
\* after any observe and act calls, returns the value of the first read,
\* and the computation never runs a second time.
C5_NameComputedOnce ==
    phase = "built" =>
        /\ nameComputations <= 1
        /\ nameReads # <<>> => nameComputations = 1
        /\ \A i \in DOMAIN nameReads :
              nameReads[i] = nameReads[1] /\ nameReads[i] = agent.agent_name
        /\ nameCache \in {NoValue, agent.agent_name}

C5_Witness ==
    /\ phase = "built"
    /\ Len(nameReads) >= 2
    /\ nOps > Len(nameReads)
    /\ nameComputations = 1

\* The entries of the channel a component was given (none without one).
ChannelEntries(k) ==
    IF agent.channels[k] = NoValue THEN <<>>
    ELSE measurements[agent.channels[k]]

\* C6 as stated: for every component of a built entity, its channel holds
\* exactly as many entries as pre_act_text was called on it.
C6_Original ==
    phase = "built" =>
        \A k \in Names(agent) : Len(ChannelEntries(k)) = preActCalls[k]

\* C6 as amended: for every component that was given a logging channel
\* (every component but the reserved memory component, which build_agent
\* constructs without one), the channel holds exactly one entry per
\* pre_act_text call on that component, in call order, all of them the
\* component's own.
C6_OneEntryPerCall ==
    phase = "built" =>
        /\ \A k \in Names(agent) :
              agent.channels[k] # NoValue =>
                  LET entries == measurements[agent.channels[k]]
                  IN  /\ Len(entries) = preActCalls[k]
                      /\ \A i \in DOMAIN entries : entries[i].component = k
                      /\ \A i, j \in DOMAIN entries :
                            i < j => entries[i].time < entries[j].time
        /\ EligibleBuild =>
              /\ agent.channels[DEFAULT_MEMORY_COMPONENT_NAME] = NoValue
              /\ \A k \in Names(agent) \ {DEFAULT_MEMORY_COMPONENT_NAME} :
                    agent.channels[k] # NoValue
        /\ Len(measurements[ActChannel]) = nActs

C6_Witness ==
    /\ GoalConfigured
    /\ phase = "built"
    /\ nActs >= 2
    /\ Len(measurements[goal_label]) = 2
    /\ Len(measurements["Perception"]) = 2
    /\ preActCalls[DEFAULT_MEMORY_COMPONENT_NAME] = 2

\* C2: one act call reads the components strictly in the fixed order handed
\* over at build time, each once, all before the single oracle call; the
\* prompt's sections follow that order (components with empty text left
\* out); whatever the order, the components read are those of the registry.
C2_ReadsInRegistryOrder ==
    [][ nActs' = nActs + 1 =>
          /\ Len(actLog') = Len(Order) + 1
          /\ \A i \in 1..Len(Order) :
                actLog'[i] = [op |-> "pre_act_text", name |-> Order[i]]
          /\ actLog'[Len(actLog')] = [op |-> "oracle", name |-> ActChannel]
          /\ [i \in DOMAIN prompt' |-> prompt'[i].name] =
                 SelectSeq(Order, LAMBDA k : lastText[k] # "")
          /\ {actLog'[i].name : i \in 1..Len(Order)} = Names(agent)
          /\ \A k \in Names(agent) : preActCalls'[k] = preActCalls[k] + 1
      ]_vars

C2_Witness ==
    /\ request.op = "EntityAgentWithLogging"
    /\ phase = "built"
    /\ nActs > 0
    /\ Order[1] = "SelfPerception"
    /\ Len(prompt) = 3
    /\ prompt[1].name = "SelfPerception"
    /\ prompt[3].name = "Observation"
    /\ actLog[Len(actLog)].op = "oracle"

====
